---- MODULE Spec2Model ----
\* A model of the teaching-preferences template generator
\* (src/templateGenerator.ts, and its refactored copy src/unnamed/part_000).
\*
\* Strings are modelled as sequences of one-character strings, so that
\* split, slice, endsWith, Number and template formatting are computed the
\* way the script computes them.
EXTENDS Integers, Sequences, FiniteSets, TLC

VARIABLES
  \* ---- one run of main ----
  pc,              \* position of main
  worksheets,      \* names of the worksheets of the workbook
  worksheet,       \* main: the worksheet addWorksheet returned, "none" before
  startRow,        \* argument of main
  endRow,          \* argument of main
  timetable,       \* cells of worksheet 'TT': row -> [time, location]
  classTimes,      \* processClassSchedules: column of time descriptions
  classLocations,  \* processClassSchedules: column of locations
  i,               \* processClassSchedules: loop index (0-based)
  combinations,    \* processClassSchedules: insertion-ordered key -> counts
  schedule,        \* main: the value returned by processClassSchedules
  ordered,         \* main: the value returned by orderCombinations
  error,           \* message of the Error thrown, or "none"
  \* ---- updateWorksheet ----
  classes,         \* updateWorksheet: slot key of each preference column
  types,           \* updateWorksheet: 'In-person' or 'Online' of each column
  counts,          \* updateWorksheet: count of each column
  endColCharCode,  \* char code of the last preference column, 0 before
  titleCols,       \* char codes of the four right-most columns
  teachingModeRows,\* createSheetFooter: the row anchors of each mode
  cells,           \* footer cells of the new worksheet: <<col, row>> -> value
  startCol,        \* addInstructionBlock: char code of its first column, 0 before
  \* ---- the helper functions applied to drawn inputs ----
  fpc,             \* position of the time-formatter round trip
  time24,          \* input of convertTo12HourFormat
  label,           \* value returned by convertTo12HourFormat
  hour,            \* value returned by parseHour
  scheduleArg,     \* input of maxValues
  maxRet           \* value returned by maxValues, << >> before the call

renderVars == <<classes, types, counts, endColCharCode, titleCols,
                teachingModeRows, cells, startCol>>
mainVars == <<pc, worksheets, worksheet, startRow, endRow, timetable, classTimes,
              classLocations, i, combinations, schedule, ordered, error,
              classes, types, counts, endColCharCode, titleCols,
              teachingModeRows, cells, startCol>>
fnVars == <<fpc, time24, label, hour, scheduleArg, maxRet>>
vars == <<pc, worksheets, worksheet, startRow, endRow, timetable, classTimes,
          classLocations, i, combinations, schedule, ordered, error,
          classes, types, counts, endColCharCode, titleCols,
          teachingModeRows, cells, startCol,
          fpc, time24, label, hour, scheduleArg, maxRet>>

\* ------------------------------------------------------------------
\* Bounds of the model
\* ------------------------------------------------------------------
\* rows of worksheet 'TT' that hold data, counted from FirstRow
MaxRows == 3
\* largest per-mode count of a schedule handed directly to maxValues
MaxCount == 3

\* ------------------------------------------------------------------
\* JavaScript values and string primitives
\* ------------------------------------------------------------------
\* Number(x) of a string that is not numeric
NaN == -1000
\* Math.max() of no arguments
NegInfinity == -2000
\* a destructured array element that does not exist
undefined == <<"undefined">>

Digits == <<"0", "1", "2", "3", "4", "5", "6", "7", "8", "9">>

IsDigit(c) == \E d \in 1..10 : Digits[d] = c

DigitValue(c) == (CHOOSE d \in 1..10 : Digits[d] = c) - 1

\* String.prototype.split with a one-character separator
RECURSIVE split(_, _)
split(s, sep) ==
  IF \A k \in 1..Len(s) : s[k] # sep
  THEN <<s>>
  ELSE LET k == CHOOSE k \in 1..Len(s) :
                  s[k] = sep /\ \A j \in 1..(k - 1) : s[j] # sep
       IN <<SubSeq(s, 1, k - 1)>> \o split(SubSeq(s, k + 1, Len(s)), sep)

\* element n (0-based) of a destructured array
At(tokens, n) == IF n + 1 <= Len(tokens) THEN tokens[n + 1] ELSE undefined

RECURSIVE DecimalValue(_)
DecimalValue(s) ==
  IF s = << >> THEN 0
  ELSE 10 * DecimalValue(SubSeq(s, 1, Len(s) - 1)) + DigitValue(s[Len(s)])

\* Number(s) of a string: '' is 0, a run of digits is its decimal value,
\* anything else is NaN
Number(s) ==
  IF \A k \in 1..Len(s) : IsDigit(s[k]) THEN DecimalValue(s) ELSE NaN

\* `${n}` of a non-negative integer
RECURSIVE NumberToString(_)
NumberToString(n) ==
  IF n < 10 THEN <<Digits[n + 1]>>
  ELSE NumberToString(n \div 10) \o <<Digits[(n % 10) + 1]>>

\* String.prototype.endsWith
endsWith(s, suffix) ==
  /\ Len(s) >= Len(suffix)
  /\ SubSeq(s, Len(s) - Len(suffix) + 1, Len(s)) = suffix

\* s.slice(0, -2)
sliceOffLastTwo(s) == SubSeq(s, 1, Len(s) - 2)

am == <<"a", "m">>
pm == <<"p", "m">>

\* ------------------------------------------------------------------
\* Time formatter
\* ------------------------------------------------------------------
\* the mutant: noon is labelled 'am' (hours > 12 instead of hours >= 12)
convertTo12HourFormat_noonAm(t24) ==
  LET hours == Number(split(t24, ":")[1])
      h12 == IF hours = NaN \/ hours % 12 = 0 THEN 12 ELSE hours % 12
  IN NumberToString(h12) \o (IF hours # NaN /\ hours > 12 THEN pm ELSE am)

\* `${hours % 12 || 12}${hours >= 12 ? 'pm' : 'am'}`; NaN % 12 is NaN, which
\* is falsy, and NaN >= 12 is false
convertTo12HourFormat(t24) ==
  LET hours == Number(split(t24, ":")[1])
      h12 == IF hours = NaN \/ hours % 12 = 0 THEN 12 ELSE hours % 12
  IN NumberToString(h12) \o (IF hours # NaN /\ hours >= 12 THEN pm ELSE am)

\* the mutant: '12am' is not mapped to 0
parseHour_noMidnight(time) ==
  LET hr == Number(sliceOffLastTwo(time))
  IN IF hr = NaN THEN NaN
     ELSE IF endsWith(time, pm) /\ hr # 12 THEN (hr + 12) % 24
     ELSE hr

\* (NaN + 12) % 24 is NaN
parseHour(time) ==
  LET hr == Number(sliceOffLastTwo(time))
  IN IF hr = NaN THEN NaN
     ELSE IF (endsWith(time, pm) /\ hr # 12) \/ (endsWith(time, am) /\ hr = 12)
          THEN (hr + 12) % 24
     ELSE hr

\* ------------------------------------------------------------------
\* Combinations: an object whose own keys enumerate in insertion order,
\* modelled as a sequence of entries [key, inPerson, online] with distinct keys
\* ------------------------------------------------------------------
keysOf(comb) == [n \in 1..Len(comb) |-> comb[n].key]

hasKey(comb, key) == \E n \in 1..Len(comb) : comb[n].key = key

indexOfKey(comb, key) == CHOOSE n \in 1..Len(comb) : comb[n].key = key

\* combinations[key] || { 'in-person': 0, 'online': 0 }
getOrZero(comb, key) ==
  IF hasKey(comb, key)
  THEN [inPerson |-> comb[indexOfKey(comb, key)].inPerson,
        online |-> comb[indexOfKey(comb, key)].online]
  ELSE [inPerson |-> 0, online |-> 0]

\* combinations[key] = value: an existing key keeps its place, a new one is
\* appended
setKey(comb, key, value) ==
  LET entry == [key |-> key, inPerson |-> value.inPerson, online |-> value.online]
  IN IF hasKey(comb, key)
     THEN [comb EXCEPT ![indexOfKey(comb, key)] = entry]
     ELSE Append(comb, entry)

\* the mapping as a set of key -> counts pairs, order forgotten
asSet(comb) == {comb[n] : n \in 1..Len(comb)}

\* ------------------------------------------------------------------
\* Schedule aggregator
\* ------------------------------------------------------------------
OnlineLocation ==
  <<"O", "n", "l", "i", "n", "e", " ", "(", "O", "N", "L", "I", "N", "E", ")">>

\* the mutant: the end time is left out of the key
slotKey_noEnd(day, begin, end) ==
  day \o <<" ">> \o convertTo12HourFormat(begin)

\* `${day} ${convertTo12HourFormat(begin)} - ${convertTo12HourFormat(end)}`
slotKey(day, begin, end) ==
  day \o <<" ">> \o convertTo12HourFormat(begin)
      \o <<" ", "-", " ">> \o convertTo12HourFormat(end)

\* const [day, begin, , end] = classTimes[i].split(' ')
rowKey(time) ==
  LET tokens == split(time, " ")
  IN slotKey(At(tokens, 0), At(tokens, 1), At(tokens, 3))

\* convertTo12HourFormat(undefined) throws a TypeError: a time description
\* with fewer than four tokens leaves begin or end undefined
rowThrows(time) ==
  LET tokens == split(time, " ")
  IN At(tokens, 1) = undefined \/ At(tokens, 3) = undefined

\* the mutant: the location is compared ignoring its case
isOnline_anyCase(location) ==
  \/ location = OnlineLocation
  \/ location = <<"o", "n", "l", "i", "n", "e", " ", "(", "o", "n", "l", "i", "n", "e", ")">>

\* classLocations[i] === 'Online (ONLINE)'
isOnline(location) == location = OnlineLocation

\* the mutant: the counts of the key are overwritten, not accumulated
tally_overwrite(comb, time, location) ==
  setKey(comb, rowKey(time),
         [inPerson |-> IF isOnline(location) THEN 0 ELSE 1,
          online |-> IF isOnline(location) THEN 1 ELSE 0])

\* the mutant: a row is counted in both modes
tally_bothModes(comb, time, location) ==
  LET key == rowKey(time)
      old == getOrZero(comb, key)
  IN setKey(comb, key,
            [inPerson |-> old.inPerson + 1, online |-> old.online + 1])

\* one iteration of the loop of processClassSchedules
tally(comb, time, location) ==
  LET key == rowKey(time)
      old == getOrZero(comb, key)
  IN setKey(comb, key,
            [inPerson |-> IF isOnline(location) THEN old.inPerson
                          ELSE old.inPerson + 1,
             online |-> IF isOnline(location) THEN old.online + 1
                        ELSE old.online])

\* the whole loop over parallel columns that parse
RECURSIVE tallyAll(_, _)
tallyAll(times, locations) ==
  IF times = << >> THEN << >>
  ELSE tally(tallyAll(SubSeq(times, 1, Len(times) - 1),
                      SubSeq(locations, 1, Len(times) - 1)),
             times[Len(times)], locations[Len(times)])

\* ------------------------------------------------------------------
\* Slot orderer
\* ------------------------------------------------------------------
weekdaysOrder ==
  << <<"M", "o", "n">>, <<"T", "u", "e">>, <<"W", "e", "d">>,
     <<"T", "h", "u">>, <<"F", "r", "i">> >>

\* Array.prototype.indexOf: 0-based, -1 when absent
indexOf(arr, x) ==
  IF \E n \in 1..Len(arr) : arr[n] = x
  THEN (CHOOSE n \in 1..Len(arr) : arr[n] = x /\ \A m \in 1..(n - 1) : arr[m] # x) - 1
  ELSE -1

\* the mutant: the start labels are compared by their number, 'am'/'pm' ignored
compare_noMeridiem(a, b) ==
  LET dayA == At(split(a, " "), 0)
      timeA == At(split(a, " "), 1)
      dayB == At(split(b, " "), 0)
      timeB == At(split(b, " "), 1)
  IN IF dayA # dayB
     THEN indexOf(weekdaysOrder, dayA) - indexOf(weekdaysOrder, dayB)
     ELSE Number(sliceOffLastTwo(timeA)) - Number(sliceOffLastTwo(timeB))

\* the comparator handed to sort
compare(a, b) ==
  LET dayA == At(split(a, " "), 0)
      timeA == At(split(a, " "), 1)
      dayB == At(split(b, " "), 0)
      timeB == At(split(b, " "), 1)
  IN IF dayA # dayB
     THEN indexOf(weekdaysOrder, dayA) - indexOf(weekdaysOrder, dayB)
     ELSE parseHour(timeA) - parseHour(timeB)

\* the mutant: an element is placed before the elements it compares equal to
RECURSIVE insert_beforeEqual(_, _)
insert_beforeEqual(sorted, x) ==
  IF sorted = << >> THEN <<x>>
  ELSE IF compare(sorted[Len(sorted)], x) < 0 THEN Append(sorted, x)
  ELSE Append(insert_beforeEqual(SubSeq(sorted, 1, Len(sorted) - 1), x),
              sorted[Len(sorted)])

\* Array.prototype.sort is stable (ECMAScript 2019): an element is placed
\* after every element that does not compare greater than it
RECURSIVE insert(_, _)
insert(sorted, x) ==
  IF sorted = << >> THEN <<x>>
  ELSE IF compare(sorted[Len(sorted)], x) <= 0 THEN Append(sorted, x)
  ELSE Append(insert(SubSeq(sorted, 1, Len(sorted) - 1), x),
              sorted[Len(sorted)])

RECURSIVE sort(_)
sort(arr) ==
  IF arr = << >> THEN << >>
  ELSE insert(sort(SubSeq(arr, 1, Len(arr) - 1)), arr[Len(arr)])

\* the mutant: every key gets the counts of the first key of the input
orderCombinations_firstCounts(comb) ==
  LET sorted == sort(keysOf(comb))
  IN [n \in 1..Len(sorted) |->
        [key |-> sorted[n], inPerson |-> comb[1].inPerson, online |-> comb[1].online]]

\* Object.keys(combinations).sort(...).forEach(key =>
\*   orderedCombinations[key] = combinations[key])
orderCombinations(comb) ==
  LET sorted == sort(keysOf(comb))
  IN [n \in 1..Len(sorted) |-> comb[indexOfKey(comb, sorted[n])]]

\* ------------------------------------------------------------------
\* Grid sizer
\* ------------------------------------------------------------------
\* Math.max(...values): -Infinity for no values
mathMax(values) ==
  IF values = << >> THEN NegInfinity
  ELSE CHOOSE m \in {values[n] : n \in 1..Len(values)} :
         \A n \in 1..Len(values) : values[n] <= m

maxValues(sched) ==
  LET inPersonValues == [n \in 1..Len(sched) |-> sched[n].inPerson]
      onlineValues == [n \in 1..Len(sched) |-> sched[n].online]
  IN <<mathMax(inPersonValues), mathMax(onlineValues)>>

\* ------------------------------------------------------------------
\* updateWorksheet: the preference columns
\* ------------------------------------------------------------------
\* classes.push(key); types.push(type); counts.push(count)
pushColumn(cols, key, type, count) ==
  [classes |-> Append(cols.classes, key),
   types |-> Append(cols.types, type),
   counts |-> Append(cols.counts, count)]

\* the mutant: the online column is pushed whatever its count
RECURSIVE buildColumns_alwaysOnline(_)
buildColumns_alwaysOnline(sched) ==
  IF sched = << >>
  THEN [classes |-> << >>, types |-> << >>, counts |-> << >>]
  ELSE LET value == sched[Len(sched)]
           before == buildColumns_alwaysOnline(SubSeq(sched, 1, Len(sched) - 1))
           withInPerson ==
             IF value.inPerson # 0
             THEN pushColumn(before, value.key, "In-person", value.inPerson)
             ELSE before
       IN pushColumn(withInPerson, value.key, "Online", value.online)

\* for (const [key, value] of Object.entries(schedule)) { ... }
RECURSIVE buildColumns(_)
buildColumns(sched) ==
  IF sched = << >>
  THEN [classes |-> << >>, types |-> << >>, counts |-> << >>]
  ELSE LET value == sched[Len(sched)]
           before == buildColumns(SubSeq(sched, 1, Len(sched) - 1))
           withInPerson ==
             IF value.inPerson # 0
             THEN pushColumn(before, value.key, "In-person", value.inPerson)
             ELSE before
       IN IF value.online # 0
          THEN pushColumn(withInPerson, value.key, "Online", value.online)
          ELSE withInPerson

\* the check before the rendering
somethingWentWrong(cols) ==
  \/ Len(cols.classes) # Len(cols.types)
  \/ Len(cols.classes) # Len(cols.counts)
  \/ Len(cols.types) # Len(cols.counts)

\* the mutant: the two inserted columns A and B are not counted
lastPreferenceCol_noShift(n) == 64 + n

\* let endColCharCode = 64 + classes.length + 2
lastPreferenceCol(n) == 64 + n + 2

\* colCharCode += 1 for each of 'Done', 'Ideal # classes', 'Max # classes',
\* 'Notes'
rightMostCols(colCharCode) == [t \in 1..4 |-> colCharCode + t]

\* a char code that is a column letter 'A'..'Z'
isColumnLetter(code) == code >= 65 /\ code <= 90

\* ------------------------------------------------------------------
\* createSheetFooter (createTimetable in the refactored copy)
\* ------------------------------------------------------------------
\* the mutant: currRow += 1, so the row pairs overlap
RECURSIVE pushRows_stepOne(_, _, _)
pushRows_stepOne(rows, currRow, remaining) ==
  IF remaining <= 0 THEN rows
  ELSE pushRows_stepOne(Append(rows, currRow), currRow + 1, remaining - 1)

\* for (let i = 0; i < max; i++) { rows.push(currRow); currRow += 2 }
RECURSIVE pushRows(_, _, _)
pushRows(rows, currRow, remaining) ==
  IF remaining <= 0 THEN rows
  ELSE pushRows(Append(rows, currRow), currRow + 2, remaining - 1)

\* let currRow = 35; ...; currRow += 1
FooterHeaderRow == 35

\* the mutant: the maxima are returned in the other order
footerMaxima_swapped(sched) == <<maxValues(sched)[2], maxValues(sched)[1]>>

\* const [maxInPerson, maxOnline] = maxValues(schedule)
footerMaxima(sched) == maxValues(sched)

\* the row anchors of the two modes: the online ones continue after the
\* in-person ones
footerRows(sched) ==
  LET inPersonRows == pushRows(<< >>, FooterHeaderRow + 1, footerMaxima(sched)[1])
  IN [inPerson |-> inPersonRows,
      online |-> pushRows(<< >>, FooterHeaderRow + 1 + 2 * Len(inPersonRows),
                          footerMaxima(sched)[2])]

\* the mutant: the rows are chosen by comparing the type as it is written
rowsOfType_caseSensitive(rows, type) ==
  IF type = "in-person" THEN rows.inPerson ELSE rows.online

\* String.prototype.toLocaleLowerCase of a type
toLocaleLowerCase(type) ==
  IF type = "In-person" THEN "in-person"
  ELSE IF type = "Online" THEN "online"
  ELSE type

\* types[i].toLocaleLowerCase() === 'in-person' ? rows['in-person'] : rows['online']
rowsOfType(rows, type) ==
  IF toLocaleLowerCase(type) = "in-person" THEN rows.inPerson ELSE rows.online

\* the first preference column, 'C'
FirstPreferenceCol == 67

\* createSheetFooterRows: C<currRow>:<endCol><currRow + 1> is set to '-'
dashCells(n, rows) ==
  LET anchors == rows.inPerson \o rows.online
      footerRowNumbers == UNION {{anchors[k], anchors[k] + 1} : k \in 1..Len(anchors)}
  IN [c \in (FirstPreferenceCol..lastPreferenceCol(n)) \X footerRowNumbers |-> "-"]

\* setCellEmpty reads rows[i] for i < count: past the end it is undefined,
\* which is no row of a range
setCellEmptyThrows(count, rows) == count > Len(rows)

\* setCellEmpty (clearCellContents): <col><rows[i]>:<col><rows[i] + 1> is
\* set to '' for i in 0..count-1
setCellEmpty(sheet, col, count, rows) ==
  [c \in DOMAIN sheet |->
     IF c[1] = col /\ \E k \in 1..count :
                        k <= Len(rows) /\ c[2] \in {rows[k], rows[k] + 1}
     THEN ""
     ELSE sheet[c]]

\* the loop over the columns, col = 67, 68, ...
RECURSIVE clearColumns(_, _, _, _)
clearColumns(sheet, cols, rows, k) ==
  IF k = 0 THEN sheet
  ELSE setCellEmpty(clearColumns(sheet, cols, rows, k - 1),
                    FirstPreferenceCol + k - 1, cols.counts[k],
                    rowsOfType(rows, cols.types[k]))

footerThrows(cols, rows) ==
  \E k \in 1..Len(cols.classes) :
    setCellEmptyThrows(cols.counts[k], rowsOfType(rows, cols.types[k]))

\* addInstructionRows of the refactored copy: let col = 63 + classesLen / 2;
\* String.fromCharCode truncates the fraction
instructionCol(classesLen) == 63 + (classesLen \div 2)

\* ------------------------------------------------------------------
\* Inputs: the workbook handed to main
\* ------------------------------------------------------------------
\* main's parameter course
Course == "COMP3900"
\* main's default startRow
FirstRow == 31
LastRow == FirstRow + MaxRows - 1

Mon == <<"M", "o", "n">>
Fri == <<"F", "r", "i">>
Room101 == <<"R", "o", "o", "m", " ", "1", "0", "1">>
onlineLowerCase ==
  <<"o", "n", "l", "i", "n", "e", " ", "(", "o", "n", "l", "i", "n", "e", ")">>

pad2(n) == IF n < 10 THEN <<"0">> \o NumberToString(n) ELSE NumberToString(n)

\* 'HH:MM'
hhmm(h, minutes) == pad2(h) \o <<":">> \o minutes

\* a cell of the class-times column: '<day> HH:MM - HH:MM'
timeDescription(slot) ==
  slot.day \o <<" ">> \o hhmm(slot.begin, slot.minutes)
           \o <<" ", "-", " ">> \o hhmm(slot.end, <<"0", "0">>)

Slot(day, begin, minutes, end) ==
  [day |-> day, begin |-> begin, minutes |-> minutes, end |-> end]

\* the class slots of the timetable: two with the same weekday and start
\* hour, one at noon, one in the afternoon, one at midnight on a later
\* weekday, one that differs from another by its minutes only
Slots ==
  { Slot(Mon, 9, <<"0", "0">>, 10),
    Slot(Mon, 9, <<"0", "0">>, 11),
    Slot(Mon, 9, <<"3", "0">>, 11),
    Slot(Mon, 10, <<"0", "0">>, 12),
    Slot(Mon, 14, <<"0", "0">>, 16),
    Slot(Fri, 0, <<"0", "0">>, 9) }

Cell(time, location) == [time |-> time, location |-> location]

emptyCell == Cell(<< >>, << >>)

\* the rows a timetable may hold: each slot in person, one slot online and
\* with a location that differs from the online sentinel by case only, and
\* an empty row
RowChoices ==
  {Cell(timeDescription(s), Room101) : s \in Slots}
    \cup {Cell(timeDescription(Slot(Mon, 9, <<"0", "0">>, 11)), OnlineLocation),
          Cell(timeDescription(Slot(Mon, 9, <<"0", "0">>, 11)), onlineLowerCase),
          emptyCell}

\* the slot a well-formed time description was written from
slotOf(time) == CHOOSE s \in Slots : timeDescription(s) = time

\* the (weekday, start hour, end hour) of a well-formed time description
tripleOf(time) == <<slotOf(time).day, slotOf(time).begin, slotOf(time).end>>

\* ------------------------------------------------------------------
\* main
\* ------------------------------------------------------------------
\* the mutant: the destination name is not checked
preconditionError_noNameCheck(ws, s, e) ==
  IF "TT" \notin ws THEN "Timetable not found"
  ELSE IF s > e THEN "Start row cannot be after End row"
  ELSE "none"

\* the three checks of main, in order; "none" when all pass
preconditionError(ws, s, e) ==
  IF "TT" \notin ws THEN "Timetable not found"
  ELSE IF s > e THEN "Start row cannot be after End row"
  ELSE IF Course \in ws THEN "Sheet COMP3900 already exists"
  ELSE "none"

PreconditionMessages ==
  {"Timetable not found", "Start row cannot be after End row",
   "Sheet COMP3900 already exists"}

\* timetable.getRange(`${col}${startRow}:${col}${endRow}`).getValues()
columnValues(field) ==
  [n \in 1..(endRow - startRow + 1) |->
     IF field = "time" THEN timetable[startRow + n - 1].time
     ELSE timetable[startRow + n - 1].location]

renderIdle ==
  /\ classes = << >>
  /\ types = << >>
  /\ counts = << >>
  /\ endColCharCode = 0
  /\ titleCols = << >>
  /\ teachingModeRows = [inPerson |-> << >>, online |-> << >>]
  /\ cells = << >>
  /\ startCol = 0

fnIdle ==
  /\ fpc = "idle"
  /\ time24 = << >>
  /\ label = << >>
  /\ hour = 0
  /\ scheduleArg = << >>
  /\ maxRet = << >>

Init ==
  /\ pc = "main"
  /\ worksheets \in SUBSET {"TT", Course}
  /\ worksheet = "none"
  /\ startRow \in {FirstRow, FirstRow + 1}
  /\ endRow \in {FirstRow, LastRow}
  /\ timetable \in (IF "TT" \in worksheets
                    THEN [FirstRow..LastRow -> RowChoices]
                    ELSE {<< >>})
  /\ classTimes = << >>
  /\ classLocations = << >>
  /\ i = 0
  /\ combinations = << >>
  /\ schedule = << >>
  /\ ordered = << >>
  /\ error = "none"
  /\ renderIdle
  /\ fnIdle

\* main throws at one of its three checks
mainThrows ==
  /\ pc = "main"
  /\ preconditionError(worksheets, startRow, endRow) # "none"
  /\ pc' = "failed"
  /\ error' = preconditionError(worksheets, startRow, endRow)
  /\ UNCHANGED <<worksheets, worksheet, startRow, endRow, timetable, classTimes,
                 classLocations, i, combinations, schedule, ordered>>
  /\ UNCHANGED fnVars
  /\ UNCHANGED renderVars

\* main passes its checks, adds the worksheet and enters
\* processClassSchedules, which reads the two columns
mainAddsWorksheet ==
  /\ pc = "main"
  /\ preconditionError(worksheets, startRow, endRow) = "none"
  /\ worksheets' = worksheets \cup {Course}
  /\ worksheet' = Course
  /\ classTimes' = columnValues("time")
  /\ classLocations' = columnValues("location")
  /\ combinations' = << >>
  /\ i' = 0
  /\ pc' = "processClassSchedules"
  /\ UNCHANGED <<startRow, endRow, timetable, schedule, ordered, error>>
  /\ UNCHANGED fnVars
  /\ UNCHANGED renderVars

\* one iteration of the loop over the rows
loopBody ==
  /\ pc = "processClassSchedules"
  /\ i < Len(classTimes)
  /\ ~rowThrows(classTimes[i + 1])
  /\ combinations' = tally(combinations, classTimes[i + 1], At(classLocations, i))
  /\ i' = i + 1
  /\ UNCHANGED <<pc, worksheets, worksheet, startRow, endRow, timetable, classTimes,
                 classLocations, schedule, ordered, error>>
  /\ UNCHANGED fnVars
  /\ UNCHANGED renderVars

\* an iteration whose time description has no begin or end token
loopThrows ==
  /\ pc = "processClassSchedules"
  /\ i < Len(classTimes)
  /\ rowThrows(classTimes[i + 1])
  /\ pc' = "failed"
  /\ error' = "TypeError"
  /\ UNCHANGED <<worksheets, worksheet, startRow, endRow, timetable, classTimes,
                 classLocations, i, combinations, schedule, ordered>>
  /\ UNCHANGED fnVars
  /\ UNCHANGED renderVars

\* processClassSchedules returns and main calls orderCombinations
mainOrders ==
  /\ pc = "processClassSchedules"
  /\ i = Len(classTimes)
  /\ schedule' = combinations
  /\ ordered' = orderCombinations(combinations)
  /\ pc' = "updateWorksheet"
  /\ UNCHANGED <<worksheets, worksheet, startRow, endRow, timetable, classTimes,
                 classLocations, i, combinations, error>>
  /\ UNCHANGED fnVars
  /\ UNCHANGED renderVars

\* updateWorksheet builds the columns, the right-most columns and the footer
mainUpdatesWorksheet ==
  /\ pc = "updateWorksheet"
  /\ LET cols == buildColumns(ordered)
         rows == footerRows(ordered)
         n == Len(cols.classes)
     IN /\ classes' = cols.classes
        /\ types' = cols.types
        /\ counts' = cols.counts
        /\ IF somethingWentWrong(cols)
           THEN /\ pc' = "failed"
                /\ error' = "Something went wrong!"
                /\ UNCHANGED <<endColCharCode, titleCols, teachingModeRows, cells>>
           ELSE /\ endColCharCode' = lastPreferenceCol(n)
                /\ titleCols' = rightMostCols(lastPreferenceCol(n))
                /\ teachingModeRows' = rows
                /\ IF footerThrows(cols, rows)
                   THEN /\ cells' = dashCells(n, rows)
                        /\ pc' = "failed"
                        /\ error' = "setCellEmpty: invalid range"
                   ELSE /\ cells' = clearColumns(dashCells(n, rows), cols, rows, n)
                        /\ pc' = "rendered"
                        /\ UNCHANGED error
  /\ UNCHANGED <<worksheets, worksheet, startRow, endRow, timetable, classTimes,
                 classLocations, i, combinations, schedule, ordered, startCol>>
  /\ UNCHANGED fnVars

\* src/templateGenerator.ts: updateWorksheet ends after the footer and main
\* freezes the top rows
mainReturns ==
  /\ pc = "rendered"
  /\ pc' = "done"
  /\ UNCHANGED <<worksheets, worksheet, startRow, endRow, timetable, classTimes,
                 classLocations, i, combinations, schedule, ordered, error>>
  /\ UNCHANGED fnVars
  /\ UNCHANGED renderVars

\* the refactored copy: updateWorksheet goes on to addInstructionRows, whose
\* block starts at column 63 + classes.length / 2, no column letter when
\* there are fewer than four columns
mainAddsInstructionRows ==
  /\ pc = "rendered"
  /\ startCol' = instructionCol(Len(classes))
  /\ IF isColumnLetter(instructionCol(Len(classes)))
     THEN pc' = "done" /\ UNCHANGED error
     ELSE pc' = "failed" /\ error' = "addInstructionBlock: invalid range"
  /\ UNCHANGED <<worksheets, worksheet, startRow, endRow, timetable, classTimes,
                 classLocations, i, combinations, schedule, ordered>>
  /\ UNCHANGED fnVars
  /\ UNCHANGED <<classes, types, counts, endColCharCode, titleCols,
                 teachingModeRows, cells>>

Next ==
  \/ mainThrows
  \/ mainAddsWorksheet
  \/ loopBody
  \/ loopThrows
  \/ mainOrders
  \/ mainUpdatesWorksheet
  \/ mainReturns
  \/ mainAddsInstructionRows

Spec == Init /\ [][Next]_vars

\* ------------------------------------------------------------------
\* The helper functions applied to drawn inputs
\* ------------------------------------------------------------------
Minutes == {<<"0", "0">>, <<"3", "0">>}

\* 'HH:MM' and 'H:MM' for every hour of the day
Time24Inputs ==
  {hhmm(h, m) : h \in 0..23, m \in Minutes}
    \cup {NumberToString(h) \o <<":">> \o m : h \in 0..9, m \in Minutes}

\* the hour a drawn time string was written from
hourOf(t24) ==
  CHOOSE h \in 0..23 :
    \E m \in Minutes : t24 \in {hhmm(h, m), NumberToString(h) \o <<":">> \o m}

keyA == <<"M", "o", "n", " ", "9", "a", "m", " ", "-", " ", "1", "0", "a", "m">>
keyB == <<"M", "o", "n", " ", "2", "p", "m", " ", "-", " ", "4", "p", "m">>

Entry(key, inPerson, online) ==
  [key |-> key, inPerson |-> inPerson, online |-> online]

\* schedules of zero, one and two slots
ScheduleInputs ==
  {<< >>}
    \cup {<<Entry(keyA, a, b)>> : a \in 0..MaxCount, b \in 0..MaxCount}
    \cup {<<Entry(keyA, a, b), Entry(keyB, c, 1)>> :
            a \in 0..MaxCount, b \in 0..MaxCount, c \in 0..MaxCount}
    \cup {<<Entry(keyA, a, 1), Entry(keyB, 1, d)>> :
            a \in 0..MaxCount, d \in 0..MaxCount}

mainIdle ==
  /\ pc = "idle"
  /\ worksheets = {}
  /\ worksheet = "none"
  /\ startRow = FirstRow
  /\ endRow = FirstRow
  /\ timetable = << >>
  /\ classTimes = << >>
  /\ classLocations = << >>
  /\ i = 0
  /\ combinations = << >>
  /\ schedule = << >>
  /\ ordered = << >>
  /\ error = "none"
  /\ renderIdle

FnInit ==
  /\ mainIdle
  /\ fpc = "start"
  /\ time24 \in Time24Inputs
  /\ label = << >>
  /\ hour = 0
  /\ scheduleArg \in ScheduleInputs
  /\ maxRet = << >>

callConvertTo12HourFormat ==
  /\ fpc = "start"
  /\ label' = convertTo12HourFormat(time24)
  /\ fpc' = "converted"
  /\ UNCHANGED <<time24, hour, scheduleArg, maxRet>>
  /\ UNCHANGED mainVars

callParseHour ==
  /\ fpc = "converted"
  /\ hour' = parseHour(label)
  /\ fpc' = "parsed"
  /\ UNCHANGED <<time24, label, scheduleArg, maxRet>>
  /\ UNCHANGED mainVars

callMaxValues ==
  /\ maxRet = << >>
  /\ maxRet' = maxValues(scheduleArg)
  /\ UNCHANGED <<fpc, time24, label, hour, scheduleArg>>
  /\ UNCHANGED mainVars

FnNext ==
  \/ callConvertTo12HourFormat
  \/ callParseHour
  \/ callMaxValues

FnSpec == FnInit /\ [][FnNext]_vars

\* ------------------------------------------------------------------
\* parseHour applied to drawn labels, well-formed or not
\* ------------------------------------------------------------------
LabelNumbers ==
  {NumberToString(n) : n \in 0..13} \cup {<< >>, <<"x">>, <<"1", "x">>}

LabelSuffixes == {am, pm, <<"x", "m">>, <<"a">>, << >>}

LabelInputs == {n \o x : n \in LabelNumbers, x \in LabelSuffixes}

ParseInit ==
  /\ mainIdle
  /\ fpc = "raw"
  /\ time24 = << >>
  /\ label \in LabelInputs
  /\ hour = 0
  /\ scheduleArg = << >>
  /\ maxRet = << >>

\* parseHour has no throw statement: it returns a number or NaN
callParseHourRaw ==
  /\ fpc = "raw"
  /\ hour' = parseHour(label)
  /\ fpc' = "parsedRaw"
  /\ UNCHANGED <<time24, label, scheduleArg, maxRet>>
  /\ UNCHANGED mainVars

ParseNext == callParseHourRaw

ParseSpec == ParseInit /\ [][ParseNext]_vars

\* ------------------------------------------------------------------
\* The loop of processClassSchedules applied to two drawn columns
\* ------------------------------------------------------------------
SeqsUpTo(S, lo, hi) == UNION {[1..k -> S] : k \in lo..hi}

AggTimes ==
  {timeDescription(Slot(Mon, 9, <<"0", "0">>, 11)),
   timeDescription(Slot(Mon, 14, <<"0", "0">>, 16))}

AggLocations == {OnlineLocation, Room101}

AggInit ==
  /\ pc = "processClassSchedules"
  /\ worksheets = {}
  /\ worksheet = "none"
  /\ startRow = FirstRow
  /\ endRow = FirstRow
  /\ timetable = << >>
  /\ classTimes \in SeqsUpTo(AggTimes, 1, MaxRows)
  /\ classLocations \in SeqsUpTo(AggLocations, 0, MaxRows)
  /\ i = 0
  /\ combinations = << >>
  /\ schedule = << >>
  /\ ordered = << >>
  /\ error = "none"
  /\ renderIdle
  /\ fnIdle

\* return combinations
aggReturns ==
  /\ pc = "processClassSchedules"
  /\ i = Len(classTimes)
  /\ schedule' = combinations
  /\ pc' = "returned"
  /\ UNCHANGED <<worksheets, worksheet, startRow, endRow, timetable, classTimes,
                 classLocations, i, combinations, ordered, error>>
  /\ UNCHANGED fnVars
  /\ UNCHANGED renderVars

AggNext ==
  \/ loopBody
  \/ aggReturns

AggSpec == AggInit /\ [][AggNext]_vars

\* ------------------------------------------------------------------
\* Properties
\* ------------------------------------------------------------------
label12am == <<"1", "2", "a", "m">>
label12pm == <<"1", "2", "p", "m">>

\* C1: for every hour h in 0..23, parseHour(convertTo12HourFormat(h)) = h;
\* in particular 0 -> '12am' -> 0 and 12 -> '12pm' -> 12.
C1_RoundTrip ==
  fpc = "parsed" =>
    /\ hour = hourOf(time24)
    /\ (hourOf(time24) = 0 => label = label12am /\ hour = 0)
    /\ (hourOf(time24) = 12 => label = label12pm /\ hour = 12)

C1_Witness ==
  fpc = "parsed" /\ hourOf(time24) = 0 /\ label = label12am /\ hour = 0

\* C2: for every hour h in 0..23 the label's number is h mod 12 with 0
\* rendered as 12, and its suffix is 'am' when h < 12 and 'pm' otherwise;
\* the minutes of the input are ignored.
C2_LabelFormat ==
  fpc \in {"converted", "parsed"} =>
    LET h == hourOf(time24)
    IN /\ Len(label) >= 3
       /\ sliceOffLastTwo(label)
            = NumberToString(IF h % 12 = 0 THEN 12 ELSE h % 12)
       /\ SubSeq(label, Len(label) - 1, Len(label))
            = (IF h < 12 THEN am ELSE pm)

C2_Witness ==
  /\ fpc = "converted"
  /\ time24 = <<"1", "2", ":", "3", "0">>
  /\ label = label12pm

\* the rows scanned so far
scanned == 1..i

\* C3: two rows are tallied under the same slot key if and only if they
\* have the same weekday, start hour and end hour, whatever their locations.
C3_SameKeyIffSameSlot ==
  pc = "processClassSchedules" =>
    /\ \A a \in scanned : \A b \in scanned :
         (rowKey(classTimes[a]) = rowKey(classTimes[b]))
           <=> (tripleOf(classTimes[a]) = tripleOf(classTimes[b]))
    /\ \A a \in scanned : hasKey(combinations, rowKey(classTimes[a]))
    /\ Len(combinations) = Cardinality({tripleOf(classTimes[a]) : a \in scanned})

C3_Witness ==
  /\ pc = "processClassSchedules"
  /\ i = 3
  /\ tripleOf(classTimes[1]) = tripleOf(classTimes[2])
  /\ classLocations[1] # classLocations[2]
  /\ tripleOf(classTimes[3])[1] = tripleOf(classTimes[1])[1]
  /\ tripleOf(classTimes[3])[2] = tripleOf(classTimes[1])[2]
  /\ tripleOf(classTimes[3])[3] # tripleOf(classTimes[1])[3]
  /\ Len(combinations) = 2

\* C4: each scanned row increments exactly one counter of exactly one key by
\* 1: the online counter iff its location is exactly 'Online (ONLINE)',
\* otherwise the in-person counter; a new key starts from 0/0 and every other
\* key is left unchanged.
C4_OneIncrementPerRow ==
  [][(pc = "processClassSchedules" /\ i' = i + 1) =>
       \E key \in {combinations'[n].key : n \in 1..Len(combinations')} :
         LET old == getOrZero(combinations, key)
             new == getOrZero(combinations', key)
             online == classLocations[i + 1] = OnlineLocation
         IN /\ online => new.online = old.online + 1 /\ new.inPerson = old.inPerson
            /\ ~online => new.inPerson = old.inPerson + 1 /\ new.online = old.online
            /\ ~hasKey(combinations, key) => old.inPerson = 0 /\ old.online = 0
            /\ Len(combinations') = Len(combinations)
                                      + (IF hasKey(combinations, key) THEN 0 ELSE 1)
            /\ \A n \in 1..Len(combinations) :
                 combinations[n].key # key => combinations'[n] = combinations[n]
    ]_vars

key9to11 == <<"M", "o", "n", " ", "9", "a", "m", " ", "-", " ", "1", "1", "a", "m">>
time9to11 ==
  <<"M", "o", "n", " ", "0", "9", ":", "0", "0", " ", "-", " ", "1", "1", ":", "0", "0">>

C4_Witness ==
  /\ pc = "processClassSchedules"
  /\ classTimes = <<time9to11, time9to11>>
  /\ classLocations = <<OnlineLocation, Room101>>
  /\ i = 2
  /\ combinations = <<Entry(key9to11, 1, 1)>>

\* the permutations of 1..n
rowPermutations(n) == {p \in [1..n -> 1..n] : \A a, b \in 1..n : p[a] = p[b] => a = b}

permuted(s, p) == [n \in 1..Len(s) |-> s[p[n]]]

\* C5: for every permutation of the rows, the aggregation gives the same set
\* of key -> counts pairs; only the insertion order of the keys may differ.
C5_Commutative ==
  pc = "updateWorksheet" =>
    \A p \in rowPermutations(Len(classTimes)) :
      asSet(tallyAll(permuted(classTimes, p), permuted(classLocations, p)))
        = asSet(schedule)

C5_Witness ==
  /\ pc = "updateWorksheet"
  /\ Len(classTimes) = 3
  /\ Len(schedule) = 2
  /\ \E p \in rowPermutations(3) :
       tallyAll(permuted(classTimes, p), permuted(classLocations, p)) # schedule

\* the rows from which a key of the schedule was tallied
rowsOfKey(key) == {a \in 1..Len(classTimes) : rowKey(classTimes[a]) = key}

\* weekday position and 24-hour start hour of a key, from the rows it tallies
weekdayOfKey(key) ==
  indexOf(weekdaysOrder, slotOf(classTimes[CHOOSE a \in rowsOfKey(key) : TRUE]).day)
startHourOfKey(key) ==
  slotOf(classTimes[CHOOSE a \in rowsOfKey(key) : TRUE]).begin

ran == pc = "updateWorksheet"

\* C6: orderCombinations enumerates the keys by weekday position in
\* Mon..Fri, then by the numeric 24-hour start hour.
C6_OrderedByDayThenHour ==
  ran =>
    \A a \in 1..Len(ordered) : \A b \in 1..Len(ordered) :
      a < b =>
        /\ weekdayOfKey(ordered[a].key) <= weekdayOfKey(ordered[b].key)
        /\ weekdayOfKey(ordered[a].key) = weekdayOfKey(ordered[b].key)
             => /\ startHourOfKey(ordered[a].key) <= startHourOfKey(ordered[b].key)
                /\ startHourOfKey(ordered[a].key)
                     = parseHour(At(split(ordered[a].key, " "), 1))

key10to12 == <<"M", "o", "n", " ", "1", "0", "a", "m", " ", "-", " ", "1", "2", "p", "m">>
key2to4 == <<"M", "o", "n", " ", "2", "p", "m", " ", "-", " ", "4", "p", "m">>
keyFri == <<"F", "r", "i", " ", "1", "2", "a", "m", " ", "-", " ", "9", "a", "m">>

C6_Witness ==
  /\ ran
  /\ keysOf(schedule) = <<keyFri, key2to4, key10to12>>
  /\ keysOf(ordered) = <<key10to12, key2to4, keyFri>>

\* C7: orderCombinations returns a mapping with the same key set as its input
\* and the same counts for every key, and leaves its input unchanged.
C7_SameEntries ==
  ran =>
    /\ Len(ordered) = Len(schedule)
    /\ asSet(ordered) = asSet(schedule)
    /\ \A a, b \in 1..Len(ordered) : ordered[a].key = ordered[b].key => a = b
    /\ schedule = combinations
    /\ schedule = tallyAll(classTimes, classLocations)

C7_Witness ==
  /\ ran
  /\ Len(schedule) = 3
  /\ ordered # schedule
  /\ \E n \in 1..3 : schedule[n].inPerson = 0
  /\ \E n \in 1..3 : schedule[n].online = 0

positionOf(comb, key) == indexOfKey(comb, key)

\* C8: two keys with the same weekday and the same start hour keep their
\* relative insertion order.
C8_Stable ==
  ran =>
    \A a \in 1..Len(schedule) : \A b \in 1..Len(schedule) :
      (/\ a < b
       /\ weekdayOfKey(schedule[a].key) = weekdayOfKey(schedule[b].key)
       /\ startHourOfKey(schedule[a].key) = startHourOfKey(schedule[b].key))
        => positionOf(ordered, schedule[a].key) < positionOf(ordered, schedule[b].key)

key9to10 == <<"M", "o", "n", " ", "9", "a", "m", " ", "-", " ", "1", "0", "a", "m">>

C8_Witness ==
  /\ ran
  /\ keysOf(schedule) = <<keyFri, key9to11, key9to10>>
  /\ keysOf(ordered) = <<key9to11, key9to10, keyFri>>

\* the maximum of a set of counts, 0 for no counts
maxOrZero(S) == IF S = {} THEN 0 ELSE CHOOSE m \in S : \A x \in S : x <= m

\* C9: maxValues returns the maximum in-person count and the maximum online
\* count over all slots, each 0 when the schedule has no slots.
C9_MaxValues ==
  maxRet # << >> =>
    /\ maxRet[1] = maxOrZero({scheduleArg[n].inPerson : n \in 1..Len(scheduleArg)})
    /\ maxRet[2] = maxOrZero({scheduleArg[n].online : n \in 1..Len(scheduleArg)})

\* C10: main throws and never calls addWorksheet when the 'TT' worksheet is
\* missing, startRow > endRow or the course's worksheet exists, checked in
\* that order; the worksheet is created only after all three pass.
C10_ChecksBeforeAdd ==
  /\ [][pc = "main" =>
          IF "TT" \notin worksheets
          THEN pc' = "failed" /\ error' = "Timetable not found"
               /\ worksheet' = "none" /\ worksheets' = worksheets
          ELSE IF startRow > endRow
          THEN pc' = "failed" /\ error' = "Start row cannot be after End row"
               /\ worksheet' = "none" /\ worksheets' = worksheets
          ELSE IF Course \in worksheets
          THEN pc' = "failed" /\ error' = "Sheet COMP3900 already exists"
               /\ worksheet' = "none" /\ worksheets' = worksheets
          ELSE pc' # "failed" /\ error' = "none"
               /\ worksheet' = Course /\ worksheets' = worksheets \cup {Course}
       ]_vars
  /\ [](error \in PreconditionMessages => pc = "failed" /\ worksheet = "none")
  /\ [][worksheets' = worksheets \/ pc = "main"]_vars

C10_Witness ==
  /\ pc = "failed"
  /\ error = "Start row cannot be after End row"
  /\ worksheets = {"TT", Course}
  /\ startRow > endRow
  /\ worksheet = "none"

\* C11: every run of main is all-or-nothing: no run raises an error after
\* workbook.addWorksheet(course) has been called.
C11_AllOrNothing ==
  error # "none" => worksheet = "none"

wellFormedLabel(l) ==
  /\ endsWith(l, am) \/ endsWith(l, pm)
  /\ Len(l) > 2
  /\ \A k \in 1..(Len(l) - 2) : IsDigit(l[k])

\* C13: parseHour fails with ParseError, instead of returning a value, when
\* the label has no valid 'am'/'pm' suffix or the part before the suffix is
\* not a valid integer.
C13_ParseError ==
  (fpc = "parsedRaw" /\ ~wellFormedLabel(label)) => error = "ParseError"

\* ------------------------------------------------------------------
\* The footer and the columns of the new worksheet
\* ------------------------------------------------------------------
\* updateWorksheet has written the columns and createSheetFooter has run
footerBuilt == endColCharCode # 0

maxInPerson == maxOrZero({ordered[n].inPerson : n \in 1..Len(ordered)})
maxOnline == maxOrZero({ordered[n].online : n \in 1..Len(ordered)})

\* the rows a row anchor owns
rowPair(anchor) == {anchor, anchor + 1}

\* C14: the in-person anchors are the maxInPerson rows 36, 38, ...,
\* 36 + 2*(maxInPerson-1), the online anchors are the maxOnline rows that
\* go on at 36 + 2*maxInPerson; every anchor owns the rows (anchor,
\* anchor+1), the anchors are strictly increasing and no row pair belongs to
\* both modes.
C14_SequentialAnchors ==
  footerBuilt =>
    LET inPersonRows == teachingModeRows.inPerson
        onlineRows == teachingModeRows.online
        anchors == inPersonRows \o onlineRows
    IN /\ Len(inPersonRows) = maxInPerson
       /\ \A k \in 1..Len(inPersonRows) : inPersonRows[k] = 36 + 2 * (k - 1)
       /\ Len(onlineRows) = maxOnline
       /\ \A k \in 1..Len(onlineRows) :
            onlineRows[k] = 36 + 2 * maxInPerson + 2 * (k - 1)
       /\ \A a \in 1..Len(anchors) : \A b \in 1..Len(anchors) :
            a < b => /\ anchors[a] < anchors[b]
                     /\ rowPair(anchors[a]) \cap rowPair(anchors[b]) = {}

C14_Witness ==
  /\ footerBuilt
  /\ teachingModeRows.inPerson = <<36, 38>>
  /\ teachingModeRows.online = <<40>>

\* createSheetFooter has returned: every setCellEmpty call found its rows
footerCleared == footerBuilt /\ error # "setCellEmpty: invalid range"

\* both rows of the pair of an anchor hold the value in a column
pairHolds(col, anchor, value) ==
  \A r \in rowPair(anchor) :
    <<col, r>> \in DOMAIN cells /\ cells[<<col, r>>] = value

\* C15: in the footer column of a (slot, mode) with count c, the row pairs
\* at the indices 0..c-1 of the column's own mode hold '', the row pairs at
\* the indices c..m-1 of that mode and every row pair of the other mode hold
\* the placeholder '-'.
C15_FilledAndUnused ==
  footerCleared =>
    \A k \in 1..Len(classes) :
      LET col == 66 + k
          own == IF types[k] = "In-person"
                 THEN teachingModeRows.inPerson ELSE teachingModeRows.online
          other == IF types[k] = "In-person"
                   THEN teachingModeRows.online ELSE teachingModeRows.inPerson
      IN /\ \A j \in 1..Len(own) :
              pairHolds(col, own[j], IF j <= counts[k] THEN "" ELSE "-")
         /\ \A j \in 1..Len(other) : pairHolds(col, other[j], "-")

C15_Witness ==
  /\ footerCleared
  /\ types = <<"In-person", "In-person">>
  /\ counts = <<2, 1>>
  /\ pairHolds(67, 36, "") /\ pairHolds(67, 38, "")
  /\ pairHolds(68, 36, "") /\ pairHolds(68, 38, "-")

\* updateWorksheet has filled classes, types and counts
columnsBuilt == footerBuilt \/ error = "Something went wrong!"

\* the number of columns the slots before slot s of the ordered schedule yield
columnsBefore(s) ==
  Cardinality({t \in 1..(s - 1) : ordered[t].inPerson # 0})
    + Cardinality({t \in 1..(s - 1) : ordered[t].online # 0})

\* column k is the column of a slot key, a type and a count
isColumn(k, key, type, count) ==
  /\ k \in 1..Len(classes) /\ k \in 1..Len(types) /\ k \in 1..Len(counts)
  /\ classes[k] = key
  /\ types[k] = type
  /\ counts[k] = count

\* C16: walking the ordered schedule, a slot yields an 'In-person' column
\* with its in-person count iff that count is non-zero, immediately followed
\* by an 'Online' column with its online count iff that count is non-zero;
\* classes, types and counts have the same length, 'Something went wrong!' is
\* never raised and every count is at least 1.
C16_ParallelColumns ==
  columnsBuilt =>
    /\ error # "Something went wrong!"
    /\ Len(classes) = Len(types)
    /\ Len(types) = Len(counts)
    /\ Len(classes) = columnsBefore(Len(ordered) + 1)
    /\ \A k \in 1..Len(counts) : counts[k] >= 1
    /\ \A s \in 1..Len(ordered) :
         LET first == columnsBefore(s) + 1
             second == IF ordered[s].inPerson # 0 THEN first + 1 ELSE first
         IN /\ ordered[s].inPerson # 0 =>
                 isColumn(first, ordered[s].key, "In-person", ordered[s].inPerson)
            /\ ordered[s].online # 0 =>
                 isColumn(second, ordered[s].key, "Online", ordered[s].online)

C16_Witness ==
  /\ columnsBuilt
  /\ types = <<"In-person", "Online", "In-person">>
  /\ classes[1] = classes[2]
  /\ classes[2] # classes[3]
  /\ counts = <<1, 1, 1>>

\* ------------------------------------------------------------------
\* The counts of the schedule
\* ------------------------------------------------------------------
\* the sum of the in-person and online counts over all keys
RECURSIVE totalCount(_)
totalCount(comb) ==
  IF comb = << >> THEN 0
  ELSE comb[1].inPerson + comb[1].online + totalCount(Tail(comb))

\* every key has non-negative counts whose sum is at least 1
everyKeyCounted(comb) ==
  \A n \in 1..Len(comb) :
    /\ comb[n].inPerson >= 0
    /\ comb[n].online >= 0
    /\ comb[n].inPerson + comb[n].online >= 1

\* C17: after processClassSchedules has scanned a prefix of k rows, every
\* key has non-negative counts whose sum is at least 1 and all the counts
\* add up to k; the counts of the finished schedule add up to the number of
\* rows in the range and no slot has both counts 0.
C17_CountsAddUp ==
  /\ pc = "processClassSchedules" =>
       /\ everyKeyCounted(combinations)
       /\ totalCount(combinations) = i
  /\ ran =>
       /\ everyKeyCounted(schedule)
       /\ totalCount(schedule) = endRow - startRow + 1

C17_Witness ==
  /\ ran
  /\ endRow - startRow + 1 = 3
  /\ Len(schedule) = 2
  /\ \E n \in 1..Len(schedule) :
       schedule[n].inPerson = 1 /\ schedule[n].online = 1

\* ------------------------------------------------------------------
\* The bounds of the footer
\* ------------------------------------------------------------------
\* the row anchors of the delivery mode of column k
anchorsOfColumn(k) ==
  IF types[k] = "In-person" THEN teachingModeRows.inPerson
  ELSE teachingModeRows.online

\* the rows of the row pairs the footer allocated
allocatedRows ==
  UNION {rowPair(teachingModeRows.inPerson[j]) :
           j \in 1..Len(teachingModeRows.inPerson)}
    \cup UNION {rowPair(teachingModeRows.online[j]) :
                  j \in 1..Len(teachingModeRows.online)}

\* C18: for every column the count passed to setCellEmpty is at most the
\* length of the anchor list of the column's mode, so every rows[i] read
\* for i in 0..count-1 is a defined anchor and no cell outside the allocated
\* row pairs is written.
C18_CountWithinAnchors ==
  footerBuilt =>
    /\ error # "setCellEmpty: invalid range"
    /\ \A k \in 1..Len(counts) :
         /\ counts[k] <= Len(anchorsOfColumn(k))
         /\ types[k] = "In-person" => counts[k] <= maxInPerson
         /\ types[k] = "Online" => counts[k] <= maxOnline
         /\ \A j \in 1..counts[k] :
              /\ j \in DOMAIN anchorsOfColumn(k)
              /\ rowPair(anchorsOfColumn(k)[j]) \subseteq allocatedRows
    /\ \A c \in DOMAIN cells :
         /\ c[1] \in 67..(66 + Len(classes))
         /\ c[2] \in allocatedRows

C18_Witness ==
  /\ footerCleared
  /\ types = <<"In-person", "Online">>
  /\ counts = <<2, 1>>
  /\ Len(teachingModeRows.inPerson) = 2
  /\ Len(teachingModeRows.online) = 1
  /\ cells[<<67, 39>>] = ""

\* ------------------------------------------------------------------
\* The column character codes
\* ------------------------------------------------------------------
\* main: endRow: number = 50
DefaultEndRow == 50

\* the number of rows of the default range 31..50
DefaultRows == DefaultEndRow - FirstRow + 1

rowsInRange == endRow - startRow + 1

\* the codes of the last preference column and of the columns 'Done',
\* 'Ideal # classes', 'Max # classes', 'Notes'
listedColumnCodes ==
  /\ Len(classes) <= rowsInRange
  /\ endColCharCode = 64 + Len(classes) + 2
  /\ \A t \in 1..4 : titleCols[t] = 64 + Len(classes) + 2 + t
  /\ \A code \in {endColCharCode} \cup {titleCols[t] : t \in 1..4} :
       code >= 65 /\ code <= 64 + rowsInRange + 6

\* the listed codes are letters whenever the range holds at most 20 rows
ListedColumnCodesAreLetters ==
  (footerBuilt /\ rowsInRange <= DefaultRows) =>
    /\ listedColumnCodes
    /\ 64 + DefaultRows + 6 <= 90

\* C19: when the range given to main holds at most 20 rows, there are at
\* most 20 preference columns and every column character code the run
\* computes is within 65..90: the last preference column 64 + n + 2, the
\* four right-most columns 64 + n + 3 .. 64 + n + 6, and, in the refactored
\* copy, the first column of the instruction block.
C19_ColumnCodesAreLetters ==
  rowsInRange <= DefaultRows =>
    /\ footerBuilt =>
         /\ Len(classes) <= DefaultRows
         /\ listedColumnCodes
         /\ 64 + DefaultRows + 6 <= 90
    /\ startCol # 0 => isColumnLetter(startCol)

====
